---- MODULE Spec2Model ----
(***************************************************************************)
(* Model of licenses.py (qt-3rdparty-licenses): the signature derivation   *)
(* of Library / WebgradientsLib, the token scan of Makefile.has_path and   *)
(* the reconciliation loop of export_used_licenses.                        *)
(*                                                                         *)
(* A Python str is a sequence of one-character strings.  Python indices    *)
(* are kept 0-based, as in the source; data[k] is Index(data, k).          *)
(***************************************************************************)
EXTENDS Integers, Sequences, FiniteSets, TLC

(***************************************************************************)
(* Python str primitives                                                   *)
(***************************************************************************)

\* the result of an operation that raised instead of returning
IndexError == "IndexError"
IOError == "IOError"

Min(a, b) == IF a < b THEN a ELSE b
Max(a, b) == IF a > b THEN a ELSE b

\* s[a:b] with both bounds already clamped to 0..len(s)
Cut(s, a, b) == IF a >= b THEN << >> ELSE SubSeq(s, a + 1, b)

\* how Python turns a slice bound into a position of 0..len(s)
SliceIndex(s, k) == IF k < 0 THEN Max(Len(s) + k, 0) ELSE Min(k, Len(s))

\* s[a:b]
Slice(s, a, b) == Cut(s, SliceIndex(s, a), SliceIndex(s, b))

\* s[k] is defined for -len(s) <= k < len(s); anything else raises
InRange(s, k) == k >= 0 - Len(s) /\ k < Len(s)
Index(s, k) == IF k < 0 THEN s[Len(s) + k + 1] ELSE s[k + 1]

\* s.startswith(p)
StartsWith(s, p) == Len(p) <= Len(s) /\ SubSeq(s, 1, Len(p)) = p

\* the least element of a set of indices, -1 for the empty set
Lowest(hits) == IF hits = {} THEN -1 ELSE CHOOSE k \in hits : \A m \in hits : k <= m

\* the greatest element of a set of indices, -1 for the empty set
Highest(hits) == IF hits = {} THEN -1 ELSE CHOOSE k \in hits : \A m \in hits : k >= m

\* s.find(sub, a, b): lowest index of sub inside s[a:b], or -1
Find(s, sub, a, b) ==
    IF a > Len(s) THEN -1
    ELSE Lowest({k \in SliceIndex(s, a)..(SliceIndex(s, b) - Len(sub)) :
                    Cut(s, k, k + Len(sub)) = sub})

\* s.find(sub): the whole string
Find0(s, sub) == Find(s, sub, 0, Len(s))

\* s.rfind(sub)
RFind(s, sub) ==
    Highest({k \in 0..(Len(s) - Len(sub)) : Cut(s, k, k + Len(sub)) = sub})

\* s.split(sep) for a one-character sep: never an empty list
RECURSIVE Split(_, _)
SplitAt(s, sep, k) ==
    IF k = -1 THEN <<s>>
    ELSE <<Cut(s, 0, k)>> \o Split(Cut(s, k + 1, Len(s)), sep)

Split(s, sep) == SplitAt(s, sep, Find0(s, <<sep>>))

\* sep.join(parts)
RECURSIVE Join(_, _)
Join(parts, sep) ==
    IF Len(parts) = 0 THEN << >>
    ELSE IF Len(parts) = 1 THEN parts[1]
    ELSE parts[1] \o <<sep>> \o Join(Tail(parts), sep)

\* s.rstrip(c)
RECURSIVE RStrip(_, _)
RStrip(s, c) ==
    IF Len(s) > 0 /\ s[Len(s)] = c THEN RStrip(SubSeq(s, 1, Len(s) - 1), c)
    ELSE s

(***************************************************************************)
(* pathlib (POSIX flavour).  A path is [root, parts]; Str gives str(path). *)
(***************************************************************************)

\* the root of a path string: exactly two leading slashes are kept
RootOf(s) ==
    IF StartsWith(s, <<"/", "/">>) /\ ~StartsWith(s, <<"/", "/", "/">>)
    THEN <<"/", "/">>
    ELSE IF StartsWith(s, <<"/">>) THEN <<"/">> ELSE << >>

\* the components pathlib keeps: not the empty ones, not '.'
SelectNonDot(part) == part # << >> /\ part # <<".">>

\* pathlib.Path(s): empty and '.' components are dropped, '..' is kept
PurePath(s) == [root |-> RootOf(s), parts |-> SelectSeq(Split(s, "/"), SelectNonDot)]

\* str(path)
Str(p) ==
    IF p.root = << >> /\ p.parts = << >> THEN <<".">>
    ELSE p.root \o Join(p.parts, "/")

\* path.name: the final component, '' when there is none
Name(p) == IF p.parts = << >> THEN << >> ELSE p.parts[Len(p.parts)]

\* the extension of the name n whose last dot is at k
SuffixAt(n, k) == IF 0 < k /\ k < Len(n) - 1 THEN Cut(n, k, Len(n)) ELSE << >>

\* the extension of the name n, with its dot
SuffixOf(n) == SuffixAt(n, RFind(n, <<".">>))

\* path.suffix: the extension of the final component
Suffix(p) == SuffixOf(Name(p))

\* p / q for parsed paths: an absolute right operand replaces the left one
JoinParsed(p, q) ==
    IF q.root # << >> THEN q ELSE [root |-> p.root, parts |-> p.parts \o q.parts]

\* path / name
JoinPath(p, s) == JoinParsed(p, PurePath(s))

\* the '..' elimination of resolve() on a tree without symbolic links
RECURSIVE Collapse(_, _)
Collapse(done, rest) ==
    IF rest = << >> THEN done
    ELSE IF Head(rest) = <<".", ".">>
         THEN Collapse(IF done = << >> THEN done ELSE SubSeq(done, 1, Len(done) - 1),
                       Tail(rest))
         ELSE Collapse(Append(done, Head(rest)), Tail(rest))

\* the absolute path p stands for in the directory cwd, '..' eliminated
Normal(abs) == [root |-> abs.root, parts |-> Collapse(<< >>, abs.parts)]

\* pathlib.Path(s).resolve() with the current directory cwd (an absolute path)
Resolve(s, cwd) == Normal(JoinPath(PurePath(cwd), s))

(***************************************************************************)
(* Literals of the source                                                  *)
(***************************************************************************)

\* '####### Compile' and '####### Install' (has_path)
CompileMarker == <<"#", "#", "#", "#", "#", "#", "#", " ", "C", "o", "m", "p", "i", "l", "e">>
InstallMarker == <<"#", "#", "#", "#", "#", "#", "#", " ", "I", "n", "s", "t", "a", "l", "l">>

\* separators = {' ', '\n', '\t'} (has_path)
separators == {" ", "\n", "\t"}

\* the prefixes _sanitise strips, in the order of its loop
IncludePrefix == <<"-", "I">>
InstallRootPrefix == <<"$", "(", "I", "N", "S", "T", "A", "L", "L", "_", "R", "O", "O", "T", ")">>

\* the extension WebgradientsLib.signatures puts in place of the last one
binaryjson == <<"b", "i", "n", "a", "r", "y", "j", "s", "o", "n">>

\* the suffixes Library.signatures keeps when it globs a directory
suffixes == {<<".", "h">>, <<".", "h", "h">>, <<".", "c">>, <<".", "c", "p", "p">>, <<".", "c", "c">>, <<".", "j", "a", "r">>, <<".", "S">>, <<".", "t", "t", "f">>}

\* the files on disk that Path.rglob('*') can see
FsFiles == <<<<"/", "q", "/", "p", "/", "s", "r", "c", "/", "p", ".", "c">>, <<"/", "q", "/", "p", "/", "R", "E", "A", "D", "M", "E">>, <<"/", "q", "/", "p", "-", "x", "/", "f", ".", "c">>>>

(***************************************************************************)
(* Library and WebgradientsLib                                             *)
(***************************************************************************)

\* [name.rstrip(',') for name in files]
RStripEach(names) == [k \in DOMAIN names |-> RStrip(names[k], ",")]

\* Library.files without the rstrip(',')
files_KeepCommas(lib_data) == Split(lib_data.Files, " ")

\* Library.files: 'Files' split on spaces, trailing commas trimmed
files(lib_data) == RStripEach(Split(lib_data.Files, " "))

\* Library.path
path(lib_data) == lib_data.Path

\* Library.id
id(lib) == lib.data.Id

\* the file q lies below lib_path and has one of the suffixes
Below(q, lib_path) ==
    /\ q.root = lib_path.root
    /\ Len(q.parts) > Len(lib_path.parts)
    /\ SubSeq(q.parts, 1, Len(lib_path.parts)) = lib_path.parts
    /\ Suffix(q) \in suffixes

\* [filepath for filepath in lib_path.rglob('*') if filepath.suffix in suffixes]
rglob(lib_path) ==
    LET Keep(f) == Below(PurePath(f), lib_path)
    IN SelectSeq(FsFiles, Keep)

\* the three branches of Library.signatures, lines 173-187
lib_filepaths(lib_path, lib_filenames) ==
    IF lib_filenames # << >>
    THEN [k \in DOMAIN lib_filenames |-> Str(JoinPath(lib_path, lib_filenames[k]))]
    ELSE IF Suffix(lib_path) # << >> THEN <<Str(lib_path)>>
    ELSE rglob(lib_path)

\* a value is returned and stored in _signatures
Stored(sigs) == [ret |-> sigs, cache |-> sigs]

\* Library.signatures: the value returned and the value left in _signatures
signatures(lib_data, cache) ==
    IF cache # << >> THEN Stored(cache)
    ELSE Stored(lib_filepaths(PurePath(path(lib_data)), files(lib_data)))

\* file_path.split('.') with parts[-1] = 'binaryjson'
WithBinaryjson(parts) == [parts EXCEPT ![Len(parts)] = binaryjson]

\* lines 259-263 on the result of super().signatures
Precompiled(base) ==
    [ret |-> <<Join(WithBinaryjson(Split(base.ret[1], ".")), ".")>>,
     cache |-> base.cache]

\* WebgradientsLib.signatures: the last dot-separated part of the first
\* ordinary signature becomes 'binaryjson'; super().signatures fills the cache
WebgradientsSignatures(lib_data, cache) == Precompiled(signatures(lib_data, cache))

\* the signatures property, dispatched on the class of the object
LibSignatures(lib, cache) ==
    IF lib.cls = "WebgradientsLib" THEN WebgradientsSignatures(lib.data, cache)
    ELSE signatures(lib.data, cache)

(***************************************************************************)
(* Makefile                                                                *)
(***************************************************************************)

\* the path without its final component
ParentOf(p) ==
    [root |-> p.root,
     parts |-> IF p.parts = << >> THEN p.parts ELSE SubSeq(p.parts, 1, Len(p.parts) - 1)]

\* file_path.parent
Parent(file_path) == Str(ParentOf(PurePath(file_path)))

\* s[len(prefix):] when s starts with prefix
StripPrefix(s, prefix) ==
    IF StartsWith(s, prefix) THEN Cut(s, Len(prefix), Len(s)) ELSE s

\* a value returned by _sanitise, and the IndexError of s[-1] on ''
Value(v) == [raised |-> FALSE, val |-> v]
Raised == [raised |-> TRUE, val |-> << >>]

\* Makefile._sanitise: s[-1] raises on the empty string
sanitise(mf, s) ==
    IF s = << >> THEN Raised
    ELSE IF s[Len(s)] = ":" THEN Value(<< >>)
    ELSE Value(Str(Resolve(StripPrefix(StripPrefix(s, IncludePrefix), InstallRootPrefix),
                           Parent(mf.file_path))))

\* the locals of has_path before its first statement
ScanBegin == [pc |-> "begin", i |-> -1, start |-> 0, end |-> 0, ret |-> "none"]

ScanReturn(s, value) == [s EXCEPT !.pc = "return", !.ret = value]

\* lines 287-299: the markers and the first find
ScanFirst(data, name, search_area_start, search_area_end, s) ==
    IF search_area_start = -1 THEN ScanReturn(s, "False")
    ELSE [s EXCEPT !.pc = "loop",
                   !.i = Find(data, name, search_area_start, search_area_end)]

\* lines 300-301: the loop test, start, end = i, i
ScanLoop(s) ==
    IF s.i = -1 THEN ScanReturn(s, "False")
    ELSE [s EXCEPT !.pc = "left", !.start = s.i, !.end = s.i]

\* lines 303-304: while data[start] not in separators: start -= 1
ScanLeft(data, s) ==
    IF ~InRange(data, s.start) THEN ScanReturn(s, IndexError)
    ELSE IF Index(data, s.start) \notin separators
         THEN [s EXCEPT !.start = s.start - 1]
         ELSE [s EXCEPT !.pc = "right"]

\* lines 306-307: while data[end] not in separators: end += 1
ScanRight(data, s) ==
    IF ~InRange(data, s.end) THEN ScanReturn(s, IndexError)
    ELSE IF Index(data, s.end) \notin separators
         THEN [s EXCEPT !.end = s.end + 1]
         ELSE [s EXCEPT !.pc = "check"]

\* lines 310-313: the comparison and the next find
ScanCompare(data, p, search_area_end, contender, s) ==
    IF contender.raised THEN ScanReturn(s, IndexError)
    ELSE IF StartsWith(contender.val, Str(p)) THEN ScanReturn(s, "True")
    ELSE [s EXCEPT !.pc = "loop",
                   !.i = Find(data, Name(p), s.end + 1, search_area_end)]

\* one step of has_path from the position s.pc, p = pathlib.Path(path)
ScanStepAt(mf, p, s) ==
    CASE s.pc = "begin" ->
            ScanFirst(mf.data, Name(p), Find0(mf.data, CompileMarker),
                      Find0(mf.data, InstallMarker), s)
      [] s.pc = "loop" -> ScanLoop(s)
      [] s.pc = "left" -> ScanLeft(mf.data, s)
      [] s.pc = "right" -> ScanRight(mf.data, s)
      [] s.pc = "check" ->
            ScanCompare(mf.data, p, Find0(mf.data, InstallMarker),
                        sanitise(mf, Slice(mf.data, s.start + 1, s.end)), s)
      [] OTHER -> s

\* one step of Makefile.has_path(path)
ScanStep(mf, cand, s) == ScanStepAt(mf, PurePath(cand), s)

RECURSIVE ScanRun(_, _, _)
ScanRun(mf, cand, s) ==
    IF s.pc = "return" THEN s.ret ELSE ScanRun(mf, cand, ScanStep(mf, cand, s))

\* Makefile.has_path(path): "True", "False" or IndexError
has_path(mf, cand) == ScanRun(mf, cand, ScanBegin)

\* Library.used over the signature list sigs, first match wins
RECURSIVE UsedFrom(_, _, _)
UsedNext(mf, sigs, k, r) == IF r = "False" THEN UsedFrom(mf, sigs, k + 1) ELSE r

UsedFrom(mf, sigs, k) ==
    IF k > Len(sigs) THEN "False" ELSE UsedNext(mf, sigs, k, has_path(mf, sigs[k]))

\* Library.used(makefile)
used(lib, cache, mf) == UsedFrom(mf, LibSignatures(lib, cache).ret, 1)

(***************************************************************************)
(* State                                                                   *)
(***************************************************************************)

VARIABLES
    \* one Library object and the reads of its signatures property
    lib,            \* the object: its class and its _data
    sigs_cache,     \* its _signatures field
    ret,            \* the value the last read of signatures returned
    first,          \* the value the first read returned
    reads,          \* how many times signatures has been read
    \* one call of Makefile.has_path
    mf,             \* the Makefile object: file_path and _data
    cand,           \* the path argument
    scan,           \* the locals of has_path and its position
    \* export_used_licenses
    thirdparty_libs,\* the catalog handed to export_used_licenses
    order,          \* the list Makefile.search returned
    libs,           \* the pending set
    caches,         \* the _signatures field of each library object, by Id
    mfIdx,          \* how many build scripts the outer loop has opened
    cur,            \* the Makefile object of the current iteration
    todo,           \* what is left of the snapshot libs.copy()
    exported,       \* how often export_license_file ran, by Id
    status,         \* "running", "done", or the exception that ended the run
    runNo,          \* 1 for the first run, 2 for the run on the permuted list
    prevExported    \* the Ids the first run exported

sigVars == <<lib, sigs_cache, ret, first, reads>>
scanVars == <<mf, cand, scan>>
runVars == <<thirdparty_libs, order, libs, caches, mfIdx, cur, todo, exported,
             status, runNo, prevExported>>
vars == <<sigVars, scanVars, runVars>>

(***************************************************************************)
(* Bounds and input pools                                                  *)
(***************************************************************************)

MaxReads == 2       \* reads of the signatures property of one object
MaxCatalog == 2     \* records in a catalog
MaxMakefiles == 3   \* build scripts Makefile.search returns

Ids == {"zlib", "pcre2", "webgradients"}

\* 'Path' attributes
P_zlib == <<"/", "q", "/", "z">>
P_zlib2 == <<"/", "q", "/", "y">>
P_pcre == <<"/", "q", "/", "p">>
P_pcre_slash == <<"/", "q", "/", "p", "/">>
P_lib == <<"/", "q", "/", "l", "i", "b">>
P_web == <<"/", "q", "/", "g">>
P_file == <<"/", "q", "/", "x", ".", "c">>
P_empty == << >>
PathPool == {P_zlib, P_pcre, P_pcre_slash, P_lib, P_web, P_file}

\* 'Files' attributes
F_empty == << >>
F_zlib == <<"i", ".", "c", ",", " ", "d", ".", "c">>
F_one == <<"i", ".", "c">>
F_web == <<"w", ".", "c", "s", "s">>
F_commas == <<"a", ".", "c", ",", ",", " ", "b", ".", "c">>
F_spaces == <<"i", ".", "c", " ", " ", "d", ".", "c">>
F_noext == <<"w">>
FilesPool == {F_empty, F_zlib, F_web, F_commas, F_spaces, F_noext}

\* libraries_factory picks the class from the Id
ClassOf(lib_attrs) ==
    IF lib_attrs.Id = "webgradients" THEN "WebgradientsLib" ELSE "Library"

NewLib(lib_attrs) == [cls |-> ClassOf(lib_attrs), data |-> lib_attrs]

\* libraries_factory: a set keeps the first of the objects with equal Ids
\* libs.add(lib): a set keeps the object it already holds for an Id
Add(before, lib_attrs) ==
    IF \E l \in before : id(l) = lib_attrs.Id THEN before
    ELSE before \cup {NewLib(lib_attrs)}

\* libraries_factory: the set of the library objects of the catalog
RECURSIVE libraries_factory(_)
libraries_factory(catalog) ==
    IF catalog = << >> THEN {}
    ELSE Add(libraries_factory(SubSeq(catalog, 1, Len(catalog) - 1)),
             catalog[Len(catalog)])

(***************************************************************************)
(* Reads of Library.signatures                                             *)
(***************************************************************************)

NoRet == << <<"?">> >>

\* one evaluation of lib.signatures
ReadSignatures ==
    /\ reads < MaxReads
    /\ \E r \in {LibSignatures(lib, sigs_cache)} :
          /\ ret' = r.ret
          /\ sigs_cache' = r.cache
          /\ first' = IF reads = 0 THEN r.ret ELSE first
    /\ reads' = reads + 1
    /\ UNCHANGED lib

(***************************************************************************)
(* One call of Makefile.has_path                                           *)
(***************************************************************************)

NL == <<"\n">>

\* whitespace-delimited tokens a build script may carry
T_none == << >>
T_inflate_c == <<"/", "q", "/", "z", "/", "i", ".", "c">>
T_inflate_cpp == <<"/", "q", "/", "z", "/", "i", ".", "c", "p", "p">>
T_deflate_rel == <<".", ".", "/", "q", "/", "z", "/", "d", ".", "c">>
T_deflate_rel2 == <<".", ".", "/", ".", ".", "/", "q", "/", "z", "/", "d", ".", "c">>
T_pcre_src == <<"/", "q", "/", "p", "/", "s", "r", "c", "/", "p", ".", "c">>
T_pcre_extra == <<"/", "q", "/", "p", "-", "x", "/", "f", ".", "c">>
T_pcre_inc == <<"-", "I", "/", "q", "/", "p">>
T_liblibfoo == <<"/", "q", "/", "l", "i", "b", "l", "i", "b", "f", "o", "o", ".", "a">>
T_web_bin == <<"/", "q", "/", "g", "/", "w", ".", "b", "i", "n", "a", "r", "y", "j", "s", "o", "n">>
T_web_css == <<"/", "q", "/", "g", "/", "w", ".", "c", "s", "s">>
CompileTokens == {T_none, T_inflate_c, T_inflate_cpp, T_deflate_rel, T_pcre_src,
                  T_pcre_extra, T_pcre_inc, T_liblibfoo, T_web_bin, T_web_css}
InstallTokens == {T_none, T_inflate_c, T_pcre_src}
AfterCompileToken == {<< >>, NL, <<" ", "\n">>}
AfterInstallToken == {<< >>, NL}

\* a build script: an optional compile marker, a token, an optional install
\* marker, a token
Text(hasCompile, t1, s1, hasInstall, t2, s2) ==
    (IF hasCompile THEN CompileMarker \o NL ELSE << >>) \o t1 \o s1
    \o (IF hasInstall THEN InstallMarker \o NL ELSE << >>) \o t2 \o s2

ScanMakefilePath == <<"/", "b", "/", "M", "a", "k", "e", "f", "i", "l", "e">>

\* the records whose signatures are searched for
R_zlib == [Id |-> "zlib", Path |-> P_zlib, Files |-> F_zlib]
R_zlib2 == [Id |-> "zlib", Path |-> P_zlib2, Files |-> F_one]
R_pcre == [Id |-> "pcre2", Path |-> P_pcre, Files |-> F_empty]
R_lib == [Id |-> "pcre2", Path |-> P_lib, Files |-> F_empty]
R_web == [Id |-> "webgradients", Path |-> P_web, Files |-> F_web]
R_none == [Id |-> "zlib", Path |-> P_empty, Files |-> F_empty]
ScanRecords == {R_zlib, R_pcre, R_lib, R_web, R_none}

Range(f) == {f[x] : x \in DOMAIN f}

\* what has_path is called with: the signatures of the records, and the
\* directory form with a trailing separator that the docstring of
\* Library.signatures announces
CandPool ==
    UNION {Range(LibSignatures(NewLib(r), << >>).ret) : r \in ScanRecords}
    \cup {P_pcre_slash}

\* lines 285-299: the markers and the first find
Begin ==
    /\ scan.pc = "begin"
    /\ scan' = ScanStep(mf, cand, scan)
    /\ UNCHANGED <<mf, cand>>

\* line 300-301: the loop test and start, end = i, i
LoopHead ==
    /\ scan.pc = "loop"
    /\ scan' = ScanStep(mf, cand, scan)
    /\ UNCHANGED <<mf, cand>>

\* lines 303-304: one test of data[start], one step to the left
ExpandLeft ==
    /\ scan.pc = "left"
    /\ scan' = ScanStep(mf, cand, scan)
    /\ UNCHANGED <<mf, cand>>

\* lines 306-307: one test of data[end], one step to the right
ExpandRight ==
    /\ scan.pc = "right"
    /\ scan' = ScanStep(mf, cand, scan)
    /\ UNCHANGED <<mf, cand>>

\* lines 309-313: sanitise the token, compare, find the next occurrence
Check ==
    /\ scan.pc = "check"
    /\ scan' = ScanStep(mf, cand, scan)
    /\ UNCHANGED <<mf, cand>>

(***************************************************************************)
(* export_used_licenses                                                    *)
(***************************************************************************)

\* the build scripts on disk
M_a == <<"/", "b", "/", "a", "/", "M", "a", "k", "e", "f", "i", "l", "e">>
M_c == <<"/", "b", "/", "c", "/", "M", "a", "k", "e", "f", "i", "l", "e">>
M_e == <<"/", "b", "/", "e", "/", "M", "a", "k", "e", "f", "i", "l", "e">>
M_u == <<"/", "b", "/", "u", "/", "M", "a", "k", "e", "f", "i", "l", "e">>
MakefilePool == {M_a, M_c, M_e, M_u}

\* the files open() cannot read
Unreadable == {M_u}

FileContent ==
    (M_a :> Text(TRUE, T_inflate_c \o <<" ">> \o T_pcre_src, NL, TRUE, T_none, << >>))
    @@ (M_c :> Text(TRUE, T_deflate_rel2 \o <<"\t">> \o T_web_bin, NL, TRUE, T_inflate_c, NL))
    @@ (M_e :> Text(TRUE, T_pcre_src, << >>, FALSE, T_none, << >>))
    @@ (M_u :> << >>)

RecordPool == {R_zlib, R_zlib2, R_pcre, R_web}

\* Makefile.__init__: open() raises on a file that cannot be read
Makefile(file_path) ==
    IF file_path \in Unreadable
    THEN [raised |-> TRUE, file_path |-> file_path, data |-> << >>]
    ELSE [raised |-> FALSE, file_path |-> file_path, data |-> FileContent[file_path]]

NoMakefile == [raised |-> FALSE, file_path |-> << >>, data |-> << >>]

\* the sequences of shorter, and those of length n - 1 extended by one of S
Extended(shorter, S, n) ==
    shorter \cup {Append(q, x) : q \in {r \in shorter : Len(r) = n - 1}, x \in S}

\* the sequences of at most n elements of S
RECURSIVE Arrangements(_, _)
Arrangements(S, n) ==
    IF n = 0 THEN {<< >>} ELSE Extended(Arrangements(S, n - 1), S, n)

NoRepeat(q) == \A a, b \in DOMAIN q : a # b => q[a] # q[b]

Catalogs == {c \in Arrangements(RecordPool, MaxCatalog) : c # << >>}
Orders == {o \in Arrangements(MakefilePool, MaxMakefiles) : o # << >> /\ NoRepeat(o)}

\* the pending set had libs.remove(lib) been left out
Remove_Keep(pending, l) == pending

\* line 63, libs.remove(lib)
Remove(pending, l) == pending \ {l}

\* the run had the error of open() been swallowed
AfterOpen_Swallow(m) == "running"

\* what becomes of the run when Makefile(mf_path) has been evaluated
AfterOpen(m) == IF m.raised THEN IOError ELSE "running"

\* lines 57-59: the next build script is opened and the pending set copied
OpenMakefile ==
    /\ status = "running"
    /\ todo = {}
    /\ mfIdx < Len(order)
    /\ \E m \in {Makefile(order[mfIdx + 1])} :
          /\ status' = AfterOpen(m)
          /\ IF status' = "running"
             THEN /\ cur' = m
                  /\ mfIdx' = mfIdx + 1
                  /\ todo' = libs
             ELSE UNCHANGED <<cur, mfIdx, todo>>
    /\ UNCHANGED <<thirdparty_libs, order, libs, caches, exported, runNo, prevExported>>

\* lines 59-63: one library of the snapshot is tested against the script
TestLib ==
    /\ status = "running"
    /\ \E l \in todo :
          /\ \E c \in {LibSignatures(l, caches[id(l)]).cache} :
                caches' = [caches EXCEPT ![id(l)] = c]
          /\ todo' = todo \ {l}
          /\ \E r \in {used(l, caches[id(l)], cur)} :
                /\ status' = IF r = IndexError THEN IndexError ELSE "running"
                /\ IF r = "True"
                   THEN /\ exported' = [exported EXCEPT ![id(l)] = exported[id(l)] + 1]
                        /\ libs' = Remove(libs, l)
                   ELSE UNCHANGED <<exported, libs>>
    /\ UNCHANGED <<thirdparty_libs, order, mfIdx, cur, runNo, prevExported>>

\* the outer loop is exhausted and export_used_licenses returns
Return ==
    /\ status = "running"
    /\ todo = {}
    /\ mfIdx = Len(order)
    /\ status' = "done"
    /\ UNCHANGED <<thirdparty_libs, order, libs, caches, mfIdx, cur, todo, exported,
                   runNo, prevExported>>

ExportedIds == {i \in Ids : exported[i] > 0}

\* export_used_licenses is run again on a permutation of the same list
RunPermuted ==
    /\ status # "running"
    /\ runNo = 1
    /\ \E makefiles \in Orders :
          /\ Len(makefiles) = Len(order)
          /\ Range(makefiles) = Range(order)
          /\ order' = makefiles
    /\ libs' = libraries_factory(thirdparty_libs)
    /\ caches' = [i \in Ids |-> << >>]
    /\ mfIdx' = 0
    /\ cur' = NoMakefile
    /\ todo' = {}
    /\ exported' = [i \in Ids |-> 0]
    /\ status' = "running"
    /\ runNo' = 2
    /\ prevExported' = ExportedIds
    /\ UNCHANGED thirdparty_libs

(***************************************************************************)
(* Specifications                                                          *)
(***************************************************************************)

\* a Library object after __init__, read no time yet
InitSig ==
    /\ \E i \in {"zlib", "webgradients"}, p \in PathPool, f \in FilesPool :
           lib = NewLib([Id |-> i, Path |-> p, Files |-> f])
    /\ sigs_cache = << >> /\ ret = NoRet /\ first = NoRet /\ reads = 0
    /\ mf = [file_path |-> ScanMakefilePath, data |-> << >>]
    /\ cand = P_zlib /\ scan = ScanBegin
    /\ thirdparty_libs = << >> /\ order = << >> /\ libs = {}
    /\ caches = [i \in Ids |-> << >>] /\ mfIdx = 0 /\ cur = NoMakefile /\ todo = {}
    /\ exported = [i \in Ids |-> 0] /\ status = "running"
    /\ runNo = 1 /\ prevExported = {}

\* the reads of Library.signatures
NextSig == ReadSignatures /\ UNCHANGED <<scanVars, runVars>>
SpecSig == InitSig /\ [][NextSig]_vars

\* a Makefile object after __init__ and the entry of has_path(cand)
InitScan ==
    /\ \E hasCompile \in BOOLEAN, t1 \in CompileTokens, s1 \in AfterCompileToken,
          hasInstall \in BOOLEAN, t2 \in InstallTokens, s2 \in AfterInstallToken :
           mf = [file_path |-> ScanMakefilePath,
                 data |-> Text(hasCompile, t1, s1, hasInstall, t2, s2)]
    /\ cand \in CandPool
    /\ scan = ScanBegin
    /\ lib = NewLib(R_zlib)
    /\ sigs_cache = << >> /\ ret = NoRet /\ first = NoRet /\ reads = 0
    /\ thirdparty_libs = << >> /\ order = << >> /\ libs = {}
    /\ caches = [i \in Ids |-> << >>] /\ mfIdx = 0 /\ cur = NoMakefile /\ todo = {}
    /\ exported = [i \in Ids |-> 0] /\ status = "running"
    /\ runNo = 1 /\ prevExported = {}

\* one call of Makefile.has_path
NextScan ==
    \/ Begin /\ UNCHANGED <<sigVars, runVars>>
    \/ LoopHead /\ UNCHANGED <<sigVars, runVars>>
    \/ ExpandLeft /\ UNCHANGED <<sigVars, runVars>>
    \/ ExpandRight /\ UNCHANGED <<sigVars, runVars>>
    \/ Check /\ UNCHANGED <<sigVars, runVars>>
SpecScan == InitScan /\ [][NextScan]_vars

\* export_used_licenses at line 57, after libraries_factory
Init ==
    /\ thirdparty_libs \in Catalogs
    /\ order \in Orders
    /\ libs = libraries_factory(thirdparty_libs)
    /\ caches = [i \in Ids |-> << >>] /\ mfIdx = 0 /\ cur = NoMakefile /\ todo = {}
    /\ exported = [i \in Ids |-> 0] /\ status = "running"
    /\ runNo = 1 /\ prevExported = {}
    /\ lib = NewLib(R_zlib)
    /\ sigs_cache = << >> /\ ret = NoRet /\ first = NoRet /\ reads = 0
    /\ mf = [file_path |-> ScanMakefilePath, data |-> << >>]
    /\ cand = P_zlib /\ scan = ScanBegin

\* export_used_licenses, and once more on a permutation
Next ==
    \/ OpenMakefile /\ UNCHANGED <<sigVars, scanVars>>
    \/ TestLib /\ UNCHANGED <<sigVars, scanVars>>
    \/ Return /\ UNCHANGED <<sigVars, scanVars>>
    \/ RunPermuted /\ UNCHANGED <<sigVars, scanVars>>
Spec == Init /\ [][Next]_vars

(***************************************************************************)
(* Vocabulary of the properties                                            *)
(***************************************************************************)

\* the positions (0-based) where a whitespace-delimited token of text begins
TokenStarts(text) ==
    {a \in 0..(Len(text) - 1) :
        text[a + 1] \notin separators /\ (a = 0 \/ text[a] \in separators)}

\* the position just after the token that begins at a
TokenEnd(text, a) ==
    LET ends == {b \in (a + 1)..Len(text) : b = Len(text) \/ text[b + 1] \in separators}
    IN CHOOSE b \in ends : \A c \in ends : b <= c

TokenText(text, a) == Cut(text, a, TokenEnd(text, a))

HasCompileMarker(text) == Find0(text, CompileMarker) # -1
HasInstallMarker(text) == Find0(text, InstallMarker) # -1

\* the token at a lies after the compile marker
AfterCompileMarker(text, a) ==
    HasCompileMarker(text) /\ a >= Find0(text, CompileMarker) + Len(CompileMarker)

\* the token at a lies before the install marker, if there is one
BeforeInstallMarker(text, a) ==
    HasInstallMarker(text) => a < Find0(text, InstallMarker)

\* the tokens of the compile region
RegionTokens(text) ==
    {a \in TokenStarts(text) : AfterCompileMarker(text, a) /\ BeforeInstallMarker(text, a)}

\* a path string without its trailing separators
NoTrailingSep(p) ==
    LET n == CHOOSE n \in 0..Len(p) :
                 /\ n = 0 \/ p[n] # "/"
                 /\ \A m \in (n + 1)..Len(p) : p[m] = "/"
    IN SubSeq(p, 1, n)

\* the path the token tok of the script m stands for
TokenPath(m, tok) == sanitise(m, tok).val

\* the whole token denotes the path p itself
DenotesFile(m, tok, p) == TokenPath(m, tok) = NoTrailingSep(p)

\* the whole token denotes something inside the directory p
DenotesInside(m, tok, p) == StartsWith(TokenPath(m, tok), NoTrailingSep(p) \o <<"/">>)

Denotes(m, tok, p) == DenotesFile(m, tok, p) \/ DenotesInside(m, tok, p)

Returned == scan.pc = "return"

(***************************************************************************)
(* C1  In one run export_license_file runs at most once per library Id:    *)
(* a library that matched is out of the pending set and of the snapshot    *)
(* still to be tested, whatever later build scripts contain, and the       *)
(* pending set never holds two libraries with one Id.                      *)
(***************************************************************************)
C1_AtMostOnce ==
    /\ \A i \in Ids : exported[i] <= 1
    /\ \A l \in libs \cup todo : exported[id(l)] = 0
    /\ \A l1, l2 \in libs : id(l1) = id(l2) => l1 = l2
    /\ Cardinality(libraries_factory(thirdparty_libs))
          = Cardinality({thirdparty_libs[k].Id : k \in DOMAIN thirdparty_libs})

\* a library was exported for the first script and the second script, fully
\* scanned, contains one of its signatures too; the catalog names its Id twice
C1_Witness ==
    /\ mfIdx = 2 /\ todo = {} /\ status = "running"
    /\ Len(thirdparty_libs) = 2 /\ thirdparty_libs[1].Id = thirdparty_libs[2].Id
    /\ \E l \in libraries_factory(thirdparty_libs) :
          /\ exported[id(l)] = 1
          /\ used(l, << >>, Makefile(order[1])) = "True"
          /\ used(l, << >>, Makefile(order[2])) = "True"

AllReadable == \A k \in DOMAIN order : order[k] \notin Unreadable

(***************************************************************************)
(* C2  Detection is order-independent: the run on a permutation of the     *)
(* list of build scripts exports the same set of library Ids as the run    *)
(* on the list.  (Stated for lists of readable scripts.)                   *)
(***************************************************************************)
C2_OrderIndependent ==
    (runNo = 2 /\ status # "running" /\ AllReadable) => ExportedIds = prevExported

(***************************************************************************)
(* C3  Boundary rule: has_path reports a match only if a whole             *)
(* whitespace-delimited token of the script denotes the candidate path;    *)
(* if the candidate's name occurs only inside longer, unrelated tokens,    *)
(* it does not report a match.                                             *)
(***************************************************************************)
C3_BoundaryRule ==
    (Returned /\ scan.ret = "True")
        => \E a \in TokenStarts(mf.data) : Denotes(mf, TokenText(mf.data, a), cand)

IsDirectorySignature(p) == Len(p) > 1 /\ p[Len(p)] = "/"

(***************************************************************************)
(* C4  Directory-signature containment: a candidate D/ matches when a      *)
(* token of the compile region resolves to a path inside D, and does not   *)
(* match when no token resolves to D or to a path inside D (a sibling      *)
(* directory whose name starts with the name of D is not inside D).        *)
(***************************************************************************)
C4_DirectoryContainment ==
    (Returned /\ IsDirectorySignature(cand))
        => /\ (\E a \in RegionTokens(mf.data) :
                   DenotesInside(mf, TokenText(mf.data, a), cand))
                 => scan.ret = "True"
           /\ (\A a \in TokenStarts(mf.data) :
                   ~Denotes(mf, TokenText(mf.data, a), cand))
                 => scan.ret # "True"

DirectoryOnly(l) ==
    l.cls = "Library" /\ l.data.Files = << >> /\ Suffix(PurePath(l.data.Path)) = << >>

(***************************************************************************)
(* C5  A directory-only record (Files empty, Path without a file-type      *)
(* suffix) has exactly one signature: Path with a trailing separator.      *)
(***************************************************************************)
C5_DirectorySignature ==
    (reads >= 1 /\ DirectoryOnly(lib))
        => ret = << NoTrailingSep(lib.data.Path) \o <<"/">> >>

\* the positions (1-based) of the spaces of f, and the k-th smallest
SpacePositions(f) == {n \in 1..Len(f) : f[n] = " "}
NthSpace(f, k) ==
    CHOOSE n \in SpacePositions(f) :
        Cardinality({m \in SpacePositions(f) : m < n}) = k - 1

\* the k-th space-separated token of f, k in 1..(number of spaces + 1)
RawToken(f, k) ==
    LET from == IF k = 1 THEN 1 ELSE NthSpace(f, k - 1) + 1
        to == IF k = Cardinality(SpacePositions(f)) + 1 THEN Len(f)
              ELSE NthSpace(f, k) - 1
    IN SubSeq(f, from, to)

\* x without its trailing commas
TrimCommas(x) ==
    LET n == CHOOSE n \in 0..Len(x) :
                 /\ n = 0 \/ x[n] # ","
                 /\ \A m \in (n + 1)..Len(x) : x[m] = ","
    IN SubSeq(x, 1, n)

\* the directory p joined with the relative file name n
Joined(p, n) ==
    LET d == NoTrailingSep(p)
    IN IF n = << >> THEN (IF p = << >> THEN <<".">> ELSE d)
       ELSE IF p = << >> THEN n
       ELSE d \o <<"/">> \o n

(***************************************************************************)
(* C6  A record with non-empty Files: Files is split on spaces, trailing   *)
(* commas are trimmed from each token, and signatures has one entry per    *)
(* token, in order, equal to Path joined with the file name; every read    *)
(* returns the content of the first read.                                  *)
(***************************************************************************)
C6_FileSignatures ==
    (reads >= 1 /\ lib.cls = "Library" /\ lib.data.Files # << >>)
        => LET f == lib.data.Files
               count == Cardinality(SpacePositions(f)) + 1
           IN /\ Len(ret) = count
              /\ \A k \in 1..count :
                    ret[k] = Joined(lib.data.Path, TrimCommas(RawToken(f, k)))
              /\ ret = first

\* signatures was read twice for a record whose Files has commas to trim
C6_Witness ==
    /\ reads = 2 /\ lib.cls = "Library" /\ lib.data.Files = F_commas
    /\ lib.data.Path = P_zlib
    /\ ret = <<<<"/", "q", "/", "z", "/", "a", ".", "c">>, <<"/", "q", "/", "z", "/", "b", ".", "c">>>>
    /\ sigs_cache = ret

Webgradients == NewLib(R_web)
StylesheetSignature == signatures(R_web, << >>).ret[1]
PrecompiledSignature ==
    LET src == StylesheetSignature
    IN SubSeq(src, 1, Len(src) - Len(Suffix(PurePath(src)))) \o <<".">> \o binaryjson

References(m, p) ==
    \E a \in RegionTokens(m.data) : DenotesFile(m, TokenText(m.data, a), p)

(***************************************************************************)
(* C7  webgradients: signatures is one entry, the first ordinary           *)
(* signature with the extension of the source file replaced by             *)
(* binaryjson; the library is found in a script whose compile region       *)
(* references only the precompiled name and not in one that references     *)
(* only the stylesheet source.                                             *)
(***************************************************************************)
C7_Webgradients ==
    /\ LibSignatures(Webgradients, << >>).ret = <<PrecompiledSignature>>
    /\ (Returned /\ cand = PrecompiledSignature)
          => /\ (References(mf, PrecompiledSignature) /\ ~References(mf, StylesheetSignature))
                   => scan.ret = "True"
             /\ (References(mf, StylesheetSignature) /\ ~References(mf, PrecompiledSignature))
                   => scan.ret # "True"

FirstUnreadable ==
    CHOOSE k \in DOMAIN order :
        order[k] \in Unreadable /\ \A j \in 1..(k - 1) : order[j] \notin Unreadable

Ended == status \in {"done", IOError}

\* the Ids of the libraries with a signature in one of the scripts 1..n
MatchedUpTo(n) ==
    {id(l) : l \in {x \in libraries_factory(thirdparty_libs) :
                       \E k \in 1..n : order[k] \notin Unreadable
                                       /\ used(x, << >>, Makefile(order[k])) = "True"}}

\* C8 as stated: only the scan of the unreadable script is aborted; the
\* libraries whose signatures appear in the other, readable scripts are
\* exported all the same
C8_LocalizedFailure == Ended => ExportedIds = MatchedUpTo(Len(order))

\* C8 as amended: the first unreadable build script ends the whole run with
\* the I/O error; exactly the libraries matched by the scripts before it
\* are exported, and no later script is scanned
C8_RunAborted ==
    (Ended /\ ~AllReadable)
        => /\ status = IOError
           /\ mfIdx = FirstUnreadable - 1
           /\ ExportedIds = MatchedUpTo(FirstUnreadable - 1)

\* the run ended at an unreadable script after it had exported a library,
\* and a readable script behind it holds a signature of another library
C8_Witness ==
    /\ status = IOError
    /\ ExportedIds # {}
    /\ MatchedUpTo(Len(order)) # ExportedIds

(***************************************************************************)
(* C9  Search region: without a compile marker there is no match; with a   *)
(* compile marker and no install marker every token after the compile      *)
(* marker that denotes the candidate is a match, the last token of the     *)
(* text included; with both markers the token that produces a match        *)
(* begins before the install marker.                                       *)
(***************************************************************************)
C9_SearchRegion ==
    Returned
        => /\ ~HasCompileMarker(mf.data) => scan.ret = "False"
           /\ (/\ HasCompileMarker(mf.data) /\ ~HasInstallMarker(mf.data)
               /\ \E a \in TokenStarts(mf.data) :
                     /\ AfterCompileMarker(mf.data, a)
                     /\ Denotes(mf, TokenText(mf.data, a), cand))
                 => scan.ret = "True"
           /\ (HasCompileMarker(mf.data) /\ HasInstallMarker(mf.data) /\ scan.ret = "True")
                 => scan.start + 1 < Find0(mf.data, InstallMarker)

\* no statement of has_path raises
C10_IndexSafe ==
    /\ scan.pc = "left" => InRange(mf.data, scan.start)
    /\ scan.pc = "right" => InRange(mf.data, scan.end)
    /\ scan.pc = "check" => Slice(mf.data, scan.start + 1, scan.end) # << >>
    /\ Returned => scan.ret \in {"True", "False"}

\* the next occurrence lies behind the current one
C10_Advances ==
    (scan.pc = "check" /\ scan'.pc = "loop" /\ scan'.i # -1)
        => scan'.i > scan.i

(***************************************************************************)
(* C10  has_path always ends with a boolean: the left and right expansion  *)
(* read positions of the text only, _sanitise is not handed an empty       *)
(* token, and every round of the loop starts behind the previous one.      *)
(***************************************************************************)
C10_AlwaysBoolean == [](C10_IndexSafe) /\ [][C10_Advances]_vars

====
